---- MODULE Spec2Model ----
(***************************************************************************)
(* A model of sync_crexi.py: the one-shot Crexi -> Supabase sync.          *)
(*                                                                         *)
(*   validate_environment -> get_supabase_client -> fetch_crexi_listings   *)
(*   -> process_market_snapshot -> process_suite_snapshots                 *)
(*   -> save_to_supabase                                                   *)
(*                                                                         *)
(* JSON values are tagged: a string is [t |-> "str", v |-> s], a number    *)
(* [t |-> "num", v |-> n], null (Python None) [t |-> "null"].  A JSON      *)
(* object (Python dict) is a function whose DOMAIN is its set of keys, an  *)
(* array (Python list) a sequence.  snapshot_date, which every builder     *)
(* reads from the wall clock, is left out of the records.                  *)
(***************************************************************************)
EXTENDS Integers, Sequences, FiniteSets, TLC

VARIABLES
    pc,               \* position of the single thread of control
    env,              \* CREXI_API_KEY, SUPABASE_URL, SUPABASE_KEY as read by os.getenv
    reported,         \* the names printed by validate_environment's one message
    exit_code,        \* <<>> while running, <<c>> once the process has exited
    uncaught,         \* the exception that left main unhandled, "" if none
    bi, ei, hi,       \* fetch_crexi_listings: positions of the three nested loops
    requests,         \* the GET requests issued so far, in order
    response,         \* what the last GET produced
    json_error,       \* what response.json() raises on a body that is not JSON
    first200,         \* history: the number of the first request answered 200, 0 if none
    result,           \* the value fetch_crexi_listings returned
    market_snapshot,  \* process_market_snapshot's record
    suite_snapshots,  \* process_suite_snapshots' list
    i,                \* save_to_supabase: the batch loop's index
    inserts,          \* the insert calls issued so far, in order, with their outcome
    backend           \* the rows the backend holds, per table

vars == <<pc, env, reported, exit_code, uncaught, bi, ei, hi, requests, response,
          json_error, first200, result, market_snapshot, suite_snapshots, i, inserts, backend>>

-----------------------------------------------------------------------------
(* JSON values and Python's dict.get, str, truthiness                      *)

JStr(s) == [t |-> "str", v |-> s]
JNum(n) == [t |-> "num", v |-> n]
JNull == [t |-> "null"]

\* no value assigned yet
None == [none |-> TRUE]

\* dict.get(key, default)
Get(d, key, default) == IF key \in DOMAIN d THEN d[key] ELSE default

Digit(n) == CASE n = 0 -> "0" [] n = 1 -> "1" [] n = 2 -> "2" [] n = 3 -> "3"
              [] n = 4 -> "4" [] n = 5 -> "5" [] n = 6 -> "6" [] n = 7 -> "7"
              [] n = 8 -> "8" [] n = 9 -> "9"

RECURSIVE Decimal(_)
Decimal(n) == IF n < 10 THEN Digit(n) ELSE Decimal(n \div 10) \o Digit(n % 10)

\* str(x) of a scalar: a string is itself, an int its decimal digits, None is 'None'
PyStr(x) == CASE x.t = "str" -> x.v
              [] x.t = "num" -> IF x.v < 0 THEN "-" \o Decimal(0 - x.v) ELSE Decimal(x.v)
              [] x.t = "null" -> "None"

\* bool(x) of an environment value: None and '' are falsy
Truthy(x) == x.t = "str" /\ x.v # ""

-----------------------------------------------------------------------------
(* Configuration                                                           *)

CREXI_BASE_URL == "https://api.crexi.com"
CREXI_STAGE_URL == "https://stage-api.crexi.com"
TARGET_MARKET == "Los Angeles"

EnvNames == <<"CREXI_API_KEY", "SUPABASE_URL", "SUPABASE_KEY">>

\* what os.getenv can give: unset, set to the empty string, set
EnvValues == {JNull, JStr(""), JStr("secret")}

\* validate_environment's list: the three checks, in their order
MissingFirstOnly(e) ==
    IF ~Truthy(e["CREXI_API_KEY"]) THEN <<"CREXI_API_KEY">>
    ELSE IF ~Truthy(e["SUPABASE_URL"]) THEN <<"SUPABASE_URL">>
    ELSE IF ~Truthy(e["SUPABASE_KEY"]) THEN <<"SUPABASE_KEY">>
    ELSE <<>>

Missing(e) ==
    (IF ~Truthy(e["CREXI_API_KEY"]) THEN <<"CREXI_API_KEY">> ELSE <<>>)
    \o (IF ~Truthy(e["SUPABASE_URL"]) THEN <<"SUPABASE_URL">> ELSE <<>>)
    \o (IF ~Truthy(e["SUPABASE_KEY"]) THEN <<"SUPABASE_KEY">> ELSE <<>>)

\* main's first call: print the list and sys.exit(1), or go on to the client and the probe
ValidateEnvironment ==
    /\ pc = "validate"
    /\ IF Missing(env) # <<>>
       THEN /\ reported' = Missing(env)
            /\ exit_code' = <<1>>
            /\ pc' = "exited"
       ELSE /\ pc' = "probe"
            /\ UNCHANGED <<reported, exit_code>>
    /\ UNCHANGED <<env, uncaught, bi, ei, hi, requests, response, json_error,
                   first200, result, market_snapshot, suite_snapshots, i, inserts,
                   backend>>

-----------------------------------------------------------------------------
(* The payloads the model feeds to the program                             *)

\* the longest top-level listings array of a payload
MaxListings == 2

S1 == [id |-> JStr("S1"), size |-> JNum(1000)]
S2 == [id |-> JStr("S2"), size |-> JNum(2000)]
S3 == [suiteId |-> JStr("S3"), squareFeet |-> JNum(750), leaseRate |-> JNum(2),
       address |-> JStr("Unit 5"), city |-> JStr("Vernon"), zipCode |-> JStr("90058")]
S4 == [status |-> JStr("Leased")]
S5 == [id |-> JNull, suiteId |-> JStr("S5"), size |-> JNull, squareFeet |-> JNum(10),
       state |-> JStr("CA")]
S6 == [id |-> JNum(0), rate |-> JNum(5), leaseRate |-> JNum(6), rateType |-> JStr("Annual"),
       size |-> JNum(40), squareFeet |-> JNum(41)]

L1 == [id |-> JStr("A1"), suites |-> <<S1, S2>>]
L2 == [assetId |-> JStr("A2"), squareFeet |-> JNum(500)]
L3 == [id |-> JStr("A3"), suites |-> <<>>]
L4 == [id |-> JNum(12), assetId |-> JStr("A4"), address |-> JStr("1 Main St"),
       city |-> JStr("LA"), suites |-> <<S3>>]
L5 == [id |-> JNull, assetId |-> JStr("A5"), suiteId |-> JNum(9), size |-> JNum(300),
       rate |-> JNum(1)]
L6 == [address |-> JStr("2 Oak Ave"), zip |-> JStr("90001"), status |-> JStr("Leased")]
L7 == [id |-> JStr("A7"), propertyType |-> JStr("Flex"), state |-> JStr("NV"),
       suites |-> <<S5, S4>>]
L8 == [assetId |-> JNum(8), suites |-> <<S4, S6>>]
LAlt == [id |-> JStr("ALT"), suites |-> <<[id |-> JStr("SALT")]>>]

Listings == {L1, L2, L3, L4, L5, L6, L7, L8}

ListingSeqs == UNION {[1..n -> Listings] : n \in 0..MaxListings}

PayloadKeys == {"results", "data", "listings"}

\* each of the three keys is absent, an empty array, the array ls, or another array
Payload(shape, ls) ==
    [k \in {q \in PayloadKeys : shape[q] # "absent"} |->
        CASE shape[k] = "empty" -> <<>>
          [] shape[k] = "main" -> ls
          [] shape[k] = "alt" -> <<LAlt>>]

Payloads ==
    {Payload(shape, ls) : shape \in [PayloadKeys -> {"absent", "empty", "main", "alt"}],
                          ls \in ListingSeqs \ {<<>>}}

\* the bodies a stub server answers a 200 with in a whole run of main
MainPayloads ==
    {[results |-> <<L1>>], [data |-> <<L2>>], [results |-> <<>>, data |-> <<L2, L4>>],
     [listings |-> <<L3, L7>>], [data |-> <<>>]}

-----------------------------------------------------------------------------
(* fetch_crexi_listings                                                    *)

headers_options ==
    << ("Authorization" :> JStr("Bearer " \o PyStr(env["CREXI_API_KEY"]))),
       ("x-api-key" :> env["CREXI_API_KEY"]),
       ("api-key" :> env["CREXI_API_KEY"]) >>

endpoint_options ==
    << "/v1/listings", "/v1/properties", "/api/v1/listings", "/api/v1/properties",
       "/listings", "/properties" >>

base_urls == <<CREXI_BASE_URL, CREXI_STAGE_URL>>

params == [market |-> TARGET_MARKET, propertyType |-> "Industrial",
           transactionType |-> "Lease", status |-> "Active"]

\* What one requests.get can produce: a RequestException (timeout, connection
\* error, DNS failure), or a response with a status code.  A 200 carries a body:
\* a JSON object, JSON that is not an object (an array), or text that is not JSON.
Statuses == {401, 403, 404, 500}

Responses ==
    {[raised |-> TRUE]}
    \cup {[raised |-> FALSE, status_code |-> s] : s \in Statuses}
    \cup {[raised |-> FALSE, status_code |-> 200, body |-> "object", json |-> d] :
              d \in MainPayloads}
    \cup {[raised |-> FALSE, status_code |-> 200, body |-> b] : b \in {"array", "text"}}

\* requests < 2.27 let the decoder's ValueError through; later versions raise
\* requests.exceptions.JSONDecodeError, which is a RequestException
JsonErrors == {"ValueError", "RequestException"}

\* the except clause of the attempt: which exceptions it swallows
CaughtNone(exc) == FALSE

Caught(exc) == exc = "RequestException"

\* the body of the try block for the response r: "return", "continue", or the
\* exception raised in it
TryBody(r) ==
    IF r.raised THEN "RequestException"
    ELSE IF r.status_code = 200
         THEN CASE r.body = "object" -> "return"
                [] r.body = "text" -> json_error
                [] r.body = "array" -> "AttributeError"
         ELSE "continue"

\* one attempt's outcome: "return", "continue", or the exception that escapes
Attempt(r) ==
    LET b == TryBody(r)
    IN  IF b \in {"return", "continue"} THEN b
        ELSE IF Caught(b) THEN "continue" ELSE b

\* the three nested for loops: headers innermost, base URLs outermost
\* loops that give up after the first base URL
AdvanceFirstBaseOnly(b, e, h) ==
    IF h < Len(headers_options) THEN <<b, e, h + 1>>
    ELSE IF e < Len(endpoint_options) THEN <<b, e + 1, 1>>
    ELSE <<Len(base_urls) + 1, 1, 1>>

Advance(b, e, h) ==
    IF h < Len(headers_options) THEN <<b, e, h + 1>>
    ELSE IF e < Len(endpoint_options) THEN <<b, e + 1, 1>>
    ELSE <<b + 1, 1, 1>>

SuccessOnExhaustion == [success |-> TRUE, endpoint |-> "", headers |-> <<>>,
                        data |-> [results |-> <<>>]]

FailureResult == [success |-> FALSE, error |-> "No working endpoint found"]

SuccessResult(url, headers, data) ==
    [success |-> TRUE, endpoint |-> url, headers |-> headers, data |-> data]

\* one iteration of the innermost loop: the GET and what the code does with it
Probe ==
    /\ pc = "probe"
    /\ bi <= Len(base_urls)
    /\ \E r \in Responses :
        LET url == base_urls[bi] \o endpoint_options[ei]
            headers == headers_options[hi]
            out == Attempt(r)
            next == Advance(bi, ei, hi)
        IN  /\ requests' = Append(requests, [url |-> url, headers |-> headers,
                                             params |-> params, timeout |-> 10])
            /\ response' = r
            /\ first200' = IF first200 = 0 /\ ~r.raised /\ r.status_code = 200
                           THEN Len(requests) + 1 ELSE first200
            /\ CASE out = "return" ->
                      /\ result' = SuccessResult(url, headers, r.json)
                      /\ pc' = "check"
                      /\ UNCHANGED <<bi, ei, hi, uncaught, exit_code>>
                 [] out = "continue" ->
                      /\ bi' = next[1] /\ ei' = next[2] /\ hi' = next[3]
                      /\ UNCHANGED <<pc, result, uncaught, exit_code>>
                 [] OTHER ->
                      /\ uncaught' = out
                      /\ exit_code' = <<1>>
                      /\ pc' = "exited"
                      /\ UNCHANGED <<bi, ei, hi, result>>
    /\ UNCHANGED <<env, reported, json_error, market_snapshot, suite_snapshots, i,
                   inserts, backend>>

\* the loops are over: the failure result
Exhausted ==
    /\ pc = "probe"
    /\ bi > Len(base_urls)
    /\ result' = FailureResult
    /\ pc' = "check"
    /\ UNCHANGED <<env, reported, exit_code, uncaught, bi, ei, hi, requests, response,
                   json_error, first200, market_snapshot, suite_snapshots, i, inserts,
                   backend>>

\* main: if not result['success']: sys.exit(1)
CheckResult ==
    /\ pc = "check"
    /\ IF ~result.success
       THEN /\ exit_code' = <<1>>
            /\ pc' = "exited"
       ELSE /\ pc' = "process_market"
            /\ UNCHANGED exit_code
    /\ UNCHANGED <<env, reported, uncaught, bi, ei, hi, requests, response, json_error,
                   first200, result, market_snapshot, suite_snapshots, i, inserts,
                   backend>>

-----------------------------------------------------------------------------
(* process_market_snapshot and process_suite_snapshots                     *)

\* a mis-extraction that skips a key holding an empty array
NonEmptyListings(data) ==
    IF "results" \in DOMAIN data /\ data["results"] # <<>> THEN data["results"]
    ELSE IF "data" \in DOMAIN data /\ data["data"] # <<>> THEN data["data"]
    ELSE IF "listings" \in DOMAIN data /\ data["listings"] # <<>> THEN data["listings"]
    ELSE <<>>

\* process_market_snapshot: listings = data.get('results', data.get('data', ...))
MarketListings(data) ==
    Get(data, "results", Get(data, "data", Get(data, "listings", <<>>)))

\* process_suite_snapshots: the same chain, written out again
SuiteListings(data) ==
    Get(data, "results", Get(data, "data", Get(data, "listings", <<>>)))

\* a count that takes the listing itself when suites is empty
MarketSuiteListOrSelf(listing) ==
    IF "suites" \in DOMAIN listing /\ listing["suites"] # <<>>
    THEN listing["suites"] ELSE <<listing>>

\* process_market_snapshot: listing.get('suites', [listing])
MarketSuiteList(listing) == Get(listing, "suites", <<listing>>)

\* a suite list that falls back to the listing when suites is empty
SuiteListOrSelf(listing) ==
    IF "suites" \in DOMAIN listing /\ listing["suites"] # <<>>
    THEN listing["suites"] ELSE <<listing>>

\* process_suite_snapshots: suite_list = listing.get('suites', [listing])
SuiteList(listing) == Get(listing, "suites", <<listing>>)

RECURSIVE SumSuites(_)
SumSuites(listings) ==
    IF listings = <<>> THEN 0
    ELSE Len(MarketSuiteList(Head(listings))) + SumSuites(Tail(listings))

process_market_snapshot(data) ==
    [market_area |-> JStr(TARGET_MARKET),
     property_type |-> JStr("Industrial"),
     total_properties |-> Len(MarketListings(data)),
     total_suites |-> SumSuites(MarketListings(data)),
     notes |-> JStr("Synced from Crexi API"),
     raw_data |-> data]

\* an asset id left as the raw value, with None when no key is present
AssetIdRaw(listing) == Get(listing, "id", Get(listing, "assetId", JNull))

AssetId(listing) == JStr(PyStr(Get(listing, "id", Get(listing, "assetId", JStr("")))))

SuiteId(listing, suite) == JStr(PyStr(Get(suite, "id", Get(suite, "suiteId", JStr("")))))

\* a size that defaults to 0 when neither key is present
SuiteSizeZeroDefault(suite) == Get(suite, "size", Get(suite, "squareFeet", JNum(0)))

\* suite.get('size', suite.get('squareFeet'))
SuiteSize(suite) == Get(suite, "size", Get(suite, "squareFeet", JNull))

\* suite.get('rate', suite.get('leaseRate'))
LeaseRate(suite) == Get(suite, "rate", Get(suite, "leaseRate", JNull))

\* a shared field that prefers the suite's value to the listing's
SharedSuiteFirst(listing, suite, lkey, skey) ==
    Get(suite, skey, Get(listing, lkey, JNull))

\* listing.get(lkey, suite.get(skey)): address, city, state, zip
Shared(listing, suite, lkey, skey) == Get(listing, lkey, Get(suite, skey, JNull))

\* the dict built for one suite of one listing
SuiteSnapshot(listing, suite) ==
    [crexi_asset_id |-> AssetId(listing),
     crexi_suite_id |-> SuiteId(listing, suite),
     market_area |-> JStr(TARGET_MARKET),
     property_type |-> Get(listing, "propertyType", JStr("Industrial")),
     suite_size |-> SuiteSize(suite),
     lease_rate |-> LeaseRate(suite),
     rate_type |-> Get(suite, "rateType", JStr("Monthly")),
     status |-> Get(suite, "status", JStr("Active")),
     address |-> Shared(listing, suite, "address", "address"),
     city |-> Shared(listing, suite, "city", "city"),
     state |-> Shared(listing, suite, "state", "state"),
     zip |-> Shared(listing, suite, "zip", "zipCode"),
     raw_data |-> suite]

\* the inner loop over one listing's suite list
ListingSnapshots(listing) ==
    LET suite_list == SuiteList(listing)
    IN  [j \in 1..Len(suite_list) |-> SuiteSnapshot(listing, suite_list[j])]

RECURSIVE AllSnapshots(_)
AllSnapshots(listings) ==
    IF listings = <<>> THEN <<>>
    ELSE ListingSnapshots(Head(listings)) \o AllSnapshots(Tail(listings))

process_suite_snapshots(data) == AllSnapshots(SuiteListings(data))

\* main: market_snapshot = process_market_snapshot(result['data'])
ProcessMarket ==
    /\ pc = "process_market"
    /\ market_snapshot' = process_market_snapshot(result.data)
    /\ pc' = "process_suites"
    /\ UNCHANGED <<env, reported, exit_code, uncaught, bi, ei, hi, requests, response,
                   json_error, first200, result, suite_snapshots, i, inserts, backend>>

\* main: suite_snapshots = process_suite_snapshots(result['data'])
ProcessSuites ==
    /\ pc = "process_suites"
    /\ suite_snapshots' = process_suite_snapshots(result.data)
    /\ pc' = "save_market"
    /\ UNCHANGED <<env, reported, exit_code, uncaught, bi, ei, hi, requests, response,
                   json_error, first200, result, market_snapshot, i, inserts, backend>>

-----------------------------------------------------------------------------
(* save_to_supabase                                                        *)

batch_size == 100

Min(a, b) == IF a < b THEN a ELSE b

\* a slice that loses the last record of every batch
BatchShort(s, k) == SubSeq(s, k + 1, Min(k + batch_size - 1, Len(s)))

\* a slice that starts one record early, repeating the last record of the batch before
BatchOverlap(s, k) ==
    SubSeq(s, IF k = 0 THEN 1 ELSE k, Min(k + batch_size, Len(s)))

\* suite_snapshots[i:i + batch_size]
Batch(s, k) == SubSeq(s, k + 1, Min(k + batch_size, Len(s)))

\* an except clause that logs the error and goes on
OnInsertErrorSwallow == "continue"

\* except Exception as e: print(...); raise
OnInsertError == "raise"

\* supabase.table('crexi_market_snapshots').insert(market_snapshot).execute()
InsertMarket ==
    /\ pc = "save_market"
    /\ \E ok \in BOOLEAN :
        /\ inserts' = Append(inserts, [table |-> "crexi_market_snapshots",
                                       rows |-> <<market_snapshot>>, ok |-> ok])
        /\ IF ok
           THEN /\ backend' = [backend EXCEPT !.crexi_market_snapshots =
                                                  Append(@, market_snapshot)]
                /\ pc' = "save_suites"
                /\ i' = 0
                /\ UNCHANGED <<uncaught, exit_code>>
           ELSE IF OnInsertError = "raise"
           THEN /\ uncaught' = "Exception"
                /\ exit_code' = <<1>>
                /\ pc' = "exited"
                /\ UNCHANGED <<backend, i>>
           ELSE /\ pc' = "finish"
                /\ UNCHANGED <<backend, i, uncaught, exit_code>>
    /\ UNCHANGED <<env, reported, bi, ei, hi, requests, response, json_error, first200,
                   result, market_snapshot, suite_snapshots>>

\* one iteration of for i in range(0, len(suite_snapshots), batch_size)
InsertBatch ==
    /\ pc = "save_suites"
    /\ suite_snapshots # <<>>
    /\ i < Len(suite_snapshots)
    /\ \E ok \in BOOLEAN :
        LET batch == Batch(suite_snapshots, i)
        IN  /\ inserts' = Append(inserts, [table |-> "crexi_suite_snapshots",
                                           rows |-> batch, ok |-> ok])
            /\ IF ok
               THEN /\ backend' = [backend EXCEPT !.crexi_suite_snapshots = @ \o batch]
                    /\ i' = i + batch_size
                    /\ UNCHANGED <<pc, uncaught, exit_code>>
               ELSE IF OnInsertError = "raise"
               THEN /\ uncaught' = "Exception"
                    /\ exit_code' = <<1>>
                    /\ pc' = "exited"
                    /\ UNCHANGED <<backend, i>>
               ELSE /\ pc' = "finish"
                    /\ UNCHANGED <<backend, i, uncaught, exit_code>>
    /\ UNCHANGED <<env, reported, bi, ei, hi, requests, response, json_error, first200,
                   result, market_snapshot, suite_snapshots>>

\* no suites, or the range is used up: the function returns
SaveReturn ==
    /\ pc = "save_suites"
    /\ suite_snapshots = <<>> \/ i >= Len(suite_snapshots)
    /\ pc' = "finish"
    /\ UNCHANGED <<env, reported, exit_code, uncaught, bi, ei, hi, requests, response,
                   json_error, first200, result, market_snapshot, suite_snapshots, i,
                   inserts, backend>>

\* main prints the summary and returns: exit status 0
Finish ==
    /\ pc = "finish"
    /\ exit_code' = <<0>>
    /\ pc' = "exited"
    /\ UNCHANGED <<env, reported, uncaught, bi, ei, hi, requests, response, json_error,
                   first200, result, market_snapshot, suite_snapshots, i, inserts,
                   backend>>

-----------------------------------------------------------------------------
(* The whole run of main                                                   *)

EmptyBackend == [crexi_market_snapshots |-> <<>>, crexi_suite_snapshots |-> <<>>]

Init ==
    /\ pc = "validate"
    /\ env \in [{EnvNames[n] : n \in 1..Len(EnvNames)} -> EnvValues]
    /\ json_error \in JsonErrors
    /\ reported = <<>>
    /\ exit_code = <<>>
    /\ uncaught = ""
    /\ bi = 1 /\ ei = 1 /\ hi = 1
    /\ requests = <<>>
    /\ response = None
    /\ first200 = 0
    /\ result = None
    /\ market_snapshot = None
    /\ suite_snapshots = <<>>
    /\ i = 0
    /\ inserts = <<>>
    /\ backend = EmptyBackend

Next ==
    \/ ValidateEnvironment
    \/ Probe
    \/ Exhausted
    \/ CheckResult
    \/ ProcessMarket
    \/ ProcessSuites
    \/ InsertMarket
    \/ InsertBatch
    \/ SaveReturn
    \/ Finish

Spec == Init /\ [][Next]_vars

\* One thread runs main from top to bottom: while a step is possible the next one
\* is taken (every GET returns or times out after 10 s, every insert returns).
SpecFair == Spec /\ WF_vars(Next)

-----------------------------------------------------------------------------
(* The two builders alone, over every payload of Payloads: the state main  *)
(* is in when the first request was answered 200 with that payload         *)

FullEnv == [n \in {EnvNames[k] : k \in 1..Len(EnvNames)} |-> JStr("secret")]

AfterFirst200(d) ==
    /\ env = FullEnv
    /\ json_error = "RequestException"
    /\ reported = <<>>
    /\ exit_code = <<>>
    /\ uncaught = ""
    /\ bi = 1 /\ ei = 1 /\ hi = 1
    /\ requests = <<[url |-> base_urls[1] \o endpoint_options[1],
                     headers |-> headers_options[1], params |-> params, timeout |-> 10]>>
    /\ response = [raised |-> FALSE, status_code |-> 200, body |-> "object", json |-> d]
    /\ first200 = 1
    /\ result = SuccessResult(base_urls[1] \o endpoint_options[1], headers_options[1], d)
    /\ i = 0
    /\ inserts = <<>>
    /\ backend = EmptyBackend

InitBuild ==
    \E d \in Payloads :
        /\ AfterFirst200(d)
        /\ pc = "process_market"
        /\ market_snapshot = None
        /\ suite_snapshots = <<>>

NextBuild ==
    \/ ProcessMarket
    \/ ProcessSuites

SpecBuild == InitBuild /\ [][NextBuild]_vars

-----------------------------------------------------------------------------
(* save_to_supabase alone, over suite lists of every length up to MaxSuites *)

\* the longest suite list handed to save_to_supabase
MaxSuites == 250

\* one listing with n suites
BulkPayload(n) ==
    [results |-> <<[id |-> JStr("B1"),
                    suites |-> [k \in 1..n |-> [id |-> JNum(k), size |-> JNum(10 * k)]]]>>]

InitSave ==
    \E n \in 0..MaxSuites :
        /\ AfterFirst200(BulkPayload(n))
        /\ pc = "save_market"
        /\ market_snapshot = process_market_snapshot(BulkPayload(n))
        /\ suite_snapshots = process_suite_snapshots(BulkPayload(n))

NextSave ==
    \/ InsertMarket
    \/ InsertBatch
    \/ SaveReturn

SpecSave == InitSave /\ [][NextSave]_vars

-----------------------------------------------------------------------------
(* Claims about fetch_crexi_listings, validate_environment and main (Spec) *)

\* the k-th combination of the order base URL -> endpoint path -> header scheme
ComboUrl(k) ==
    base_urls[((k - 1) \div (Len(endpoint_options) * Len(headers_options))) + 1]
    \o endpoint_options[(((k - 1) \div Len(headers_options)) % Len(endpoint_options)) + 1]

ComboHeaders(k) == headers_options[((k - 1) % Len(headers_options)) + 1]

Returned == "success" \in DOMAIN result

\* C1: requests go out in the order base URL -> endpoint path -> header scheme, and
\* once a request is answered 200 it is the last one: no further request is made
\* and the result returned is the success result naming that request's URL and
\* headers.
C1_FirstOkWins ==
    /\ \A k \in 1..Len(requests) :
          requests[k].url = ComboUrl(k) /\ requests[k].headers = ComboHeaders(k)
    /\ first200 # 0 =>
          /\ Len(requests) = first200
          /\ Returned
          /\ result.success
          /\ result.endpoint = ComboUrl(first200)
          /\ result.headers = ComboHeaders(first200)

NonFatalResponse(r) == r # None /\ (r.raised \/ r.status_code # 200)

\* C3: an attempt that ends in 401/403/404, another non-200 status or a transport
\* failure ends neither the loop nor the process: the loops stand at the next
\* combination in order, which is the one the next request uses; after the last
\* combination the loops are over and only the failure return is left.
C3_AttemptNeverFatal ==
    [][ (pc = "probe" /\ Len(requests') = Len(requests) + 1 /\ NonFatalResponse(response'))
        => /\ pc' = "probe"
           /\ uncaught' = ""
           /\ exit_code' = <<>>
           /\ result' = result
           /\ requests'[Len(requests')].url = ComboUrl(Len(requests'))
           /\ requests'[Len(requests')].headers = ComboHeaders(Len(requests'))
           /\ IF Len(requests') < 36
              THEN /\ bi' <= Len(base_urls)
                   /\ base_urls[bi'] \o endpoint_options[ei'] = ComboUrl(Len(requests') + 1)
                   /\ headers_options[hi'] = ComboHeaders(Len(requests') + 1)
              ELSE bi' > Len(base_urls) ]_vars

C3_Witness ==
    /\ pc = "probe"
    /\ Len(requests) = 20
    /\ response # None /\ response.raised
    /\ bi = 2 /\ ei = 1 /\ hi = 3

\* the required variables that are unset or empty
C6_MissingNames == {n \in DOMAIN env : env[n] = JNull \/ env[n] = JStr("")}

\* C6: when k >= 1 of the three variables are unset or empty, validation prints
\* exactly those k names in its one message and exits with status 1 before any
\* request or insert; when none is missing it prints nothing and does not exit.
C6_CollectAllThenFail ==
    pc # "validate" =>
        IF C6_MissingNames # {}
        THEN /\ {reported[k] : k \in 1..Len(reported)} = C6_MissingNames
             /\ Len(reported) = Cardinality(C6_MissingNames)
             /\ exit_code = <<1>>
             /\ pc = "exited"
             /\ requests = <<>>
             /\ inserts = <<>>
             /\ backend = EmptyBackend
        ELSE /\ reported = <<>>
             /\ pc = "exited" => requests # <<>>

C6_Witness ==
    /\ pc = "exited"
    /\ reported = <<"CREXI_API_KEY", "SUPABASE_KEY">>
    /\ env["CREXI_API_KEY"] = JStr("")
    /\ env["SUPABASE_KEY"] = JNull

\* C7: an insert is issued only after the prober returned the success result of a
\* request answered 200; when the combinations are used up the process exits with
\* status 1 and nothing was written.
C7_NoWriteWithoutSuccess ==
    /\ (inserts # <<>> \/ backend # EmptyBackend \/ pc \in {"process_market",
            "process_suites", "save_market", "save_suites", "finish"})
          => /\ Returned /\ result.success
             /\ first200 # 0
             /\ ~response.raised /\ response.status_code = 200
             /\ requests[Len(requests)].url = result.endpoint
             /\ result.data = response.json
    /\ (Returned /\ ~result.success)
          => /\ inserts = <<>>
             /\ backend = EmptyBackend
             /\ pc \in {"check", "exited"}
             /\ pc = "exited" => exit_code = <<1>>

C7_Witness ==
    /\ pc = "exited"
    /\ exit_code = <<0>>
    /\ Len(requests) = 7
    /\ Len(inserts) = 2
    /\ backend.crexi_suite_snapshots # <<>>

-----------------------------------------------------------------------------
(* Claims about save_to_supabase (SpecSave)                                *)

\* ceil(n / 100)
C4_Batches(n) == (n + 99) \div 100

\* C4: when save_to_supabase returns, every insert having succeeded, it has issued
\* one market-snapshot insert first and then ceil(N/100) suite-batch inserts, each
\* of 100 records except the last, which has between 1 and 100; none for N = 0.
C4_OneMarketThenBatches ==
    pc = "finish" =>
        LET n == Len(suite_snapshots)
        IN  /\ Len(inserts) = 1 + C4_Batches(n)
            /\ inserts[1].table = "crexi_market_snapshots"
            /\ inserts[1].rows = <<market_snapshot>>
            /\ \A j \in 1..Len(inserts) : inserts[j].ok
            /\ \A j \in 1..C4_Batches(n) :
                  /\ inserts[j + 1].table = "crexi_suite_snapshots"
                  /\ Len(inserts[j + 1].rows) =
                        IF j < C4_Batches(n) THEN 100 ELSE n - 100 * (C4_Batches(n) - 1)
                  /\ Len(inserts[j + 1].rows) \in 1..100

C4_Witness ==
    /\ pc = "finish"
    /\ Len(suite_snapshots) = 250
    /\ Len(inserts) = 4
    /\ Len(inserts[2].rows) = 100 /\ Len(inserts[3].rows) = 100 /\ Len(inserts[4].rows) = 50

\* the rows of the calls into table t that succeeded, in call order
RECURSIVE C5_Written(_, _)
C5_Written(calls, t) ==
    IF calls = <<>> THEN <<>>
    ELSE (IF Head(calls).ok /\ Head(calls).table = t THEN Head(calls).rows ELSE <<>>)
         \o C5_Written(Tail(calls), t)

\* C5: a failed insert is the last insert issued (after a failed market insert no
\* suite batch, after a failed batch no later batch), the failure leaves
\* save_to_supabase and main as an unhandled exception, and the backend keeps the
\* rows of every insert that succeeded before it.
C5_FirstFailureIsLast ==
    /\ \A j \in 1..Len(inserts) :
          ~inserts[j].ok => /\ j = Len(inserts)
                            /\ pc = "exited"
                            /\ uncaught = "Exception"
                            /\ exit_code = <<1>>
    /\ backend.crexi_market_snapshots = C5_Written(inserts, "crexi_market_snapshots")
    /\ backend.crexi_suite_snapshots = C5_Written(inserts, "crexi_suite_snapshots")
    /\ uncaught = "Exception" => inserts # <<>> /\ ~inserts[Len(inserts)].ok

C5_Witness ==
    /\ pc = "exited"
    /\ Len(suite_snapshots) = 250
    /\ Len(inserts) = 3
    /\ ~inserts[3].ok
    /\ backend.crexi_market_snapshots = <<market_snapshot>>
    /\ backend.crexi_suite_snapshots = SubSeq(suite_snapshots, 1, 100)

-----------------------------------------------------------------------------
(* Claims about the two builders (SpecBuild)                               *)

\* the value under the first of results, data, listings that is a non-empty array
C8_FirstNonEmpty(d) ==
    CASE "results" \in DOMAIN d /\ d["results"] # <<>> -> d["results"]
      [] "data" \in DOMAIN d /\ d["data"] # <<>> -> d["data"]
      [] "listings" \in DOMAIN d /\ d["listings"] # <<>> -> d["listings"]
      [] OTHER -> <<>>

\* the value under the first of results, data, listings that is present
C8_FirstPresent(d) ==
    CASE "results" \in DOMAIN d -> d["results"]
      [] "data" \in DOMAIN d -> d["data"]
      [] "listings" \in DOMAIN d -> d["listings"]
      [] OTHER -> <<>>

\* C8 as stated: both builders work on the first key that holds a non-empty array.
C8_FirstNonEmptyKey ==
    /\ pc \in {"process_suites", "save_market"} =>
          market_snapshot.total_properties = Len(C8_FirstNonEmpty(result.data))
    /\ pc = "save_market" =>
          suite_snapshots = AllSnapshots(C8_FirstNonEmpty(result.data))

\* C8: both builders work on the first of results, data, listings that is present,
\* an empty array included, and on the empty sequence when none is; total_properties
\* is the number of those listings.
C8_FirstPresentKey ==
    /\ pc \in {"process_suites", "save_market"} =>
          market_snapshot.total_properties = Len(C8_FirstPresent(result.data))
    /\ pc = "save_market" =>
          suite_snapshots = AllSnapshots(C8_FirstPresent(result.data))

C8_Witness ==
    /\ pc = "save_market"
    /\ result.data = [results |-> <<>>, data |-> <<L1, L2>>]
    /\ market_snapshot.total_properties = 0
    /\ suite_snapshots = <<>>

\* suites when the key is present and non-empty, else the listing itself
C9_SuitesOrSelf(l) ==
    IF "suites" \in DOMAIN l /\ l["suites"] # <<>> THEN l["suites"] ELSE <<l>>

\* suites when the key is present, else the listing itself
C9_SuitesIfPresent(l) == IF "suites" \in DOMAIN l THEN l["suites"] ELSE <<l>>

RECURSIVE C9_FlattenOrSelf(_)
C9_FlattenOrSelf(ls) ==
    IF ls = <<>> THEN <<>> ELSE C9_SuitesOrSelf(Head(ls)) \o C9_FlattenOrSelf(Tail(ls))

RECURSIVE C9_FlattenIfPresent(_)
C9_FlattenIfPresent(ls) ==
    IF ls = <<>> THEN <<>>
    ELSE C9_SuitesIfPresent(Head(ls)) \o C9_FlattenIfPresent(Tail(ls))

\* C9 as stated: an empty suites array falls back to the listing itself, so every
\* listing counts at least 1 in total_suites and yields at least one record.
C9_AtLeastOnePerListing ==
    /\ pc \in {"process_suites", "save_market"} =>
          /\ market_snapshot.total_suites = Len(C9_FlattenOrSelf(C8_FirstPresent(result.data)))
          /\ market_snapshot.total_suites >= market_snapshot.total_properties
    /\ pc = "save_market" =>
          [k \in 1..Len(suite_snapshots) |-> suite_snapshots[k].raw_data]
              = C9_FlattenOrSelf(C8_FirstPresent(result.data))

\* C9: the suite list is listing.suites whenever the key is present, an empty array
\* included, and the listing itself otherwise: total_suites counts, and the suite
\* builder emits, one entry per element of that list, which is none for a listing
\* whose suites is an empty array.
C9_SuitesWhenPresent ==
    /\ pc \in {"process_suites", "save_market"} =>
          market_snapshot.total_suites = Len(C9_FlattenIfPresent(C8_FirstPresent(result.data)))
    /\ pc = "save_market" =>
          [k \in 1..Len(suite_snapshots) |-> suite_snapshots[k].raw_data]
              = C9_FlattenIfPresent(C8_FirstPresent(result.data))

C9_Witness ==
    /\ pc = "save_market"
    /\ result.data = [data |-> <<L3, L2>>]
    /\ market_snapshot.total_properties = 2
    /\ market_snapshot.total_suites = 1
    /\ Len(suite_snapshots) = 1
    /\ suite_snapshots[1].raw_data = L2

\* the listing each emitted record belongs to, in emission order
RECURSIVE C10_Owners(_)
C10_Owners(ls) ==
    IF ls = <<>> THEN <<>>
    ELSE [k \in 1..Len(C9_SuitesIfPresent(Head(ls))) |-> Head(ls)] \o C10_Owners(Tail(ls))

\* the string form of the value under key a, else under key b, else ''
C10_Id(obj, a, b) ==
    IF a \in DOMAIN obj THEN PyStr(obj[a])
    ELSE IF b \in DOMAIN obj THEN PyStr(obj[b])
    ELSE ""

\* C10: in every emitted record crexi_asset_id and crexi_suite_id are strings: the
\* string form of the listing's id, else of its assetId, and of the suite's id,
\* else of its suiteId, and the empty string when neither key exists.
C10_IdsAreStrings ==
    pc = "save_market" =>
        LET owners == C10_Owners(C8_FirstPresent(result.data))
        IN  /\ Len(owners) = Len(suite_snapshots)
            /\ \A k \in 1..Len(suite_snapshots) :
                  LET r == suite_snapshots[k]
                  IN  /\ {"crexi_asset_id", "crexi_suite_id"} \subseteq DOMAIN r
                      /\ r.crexi_asset_id.t = "str"
                      /\ r.crexi_suite_id.t = "str"
                      /\ r.crexi_asset_id.v = C10_Id(owners[k], "id", "assetId")
                      /\ r.crexi_suite_id.v = C10_Id(r.raw_data, "id", "suiteId")

C10_Witness ==
    /\ pc = "save_market"
    /\ result.data = [listings |-> <<L6, L4>>]
    /\ suite_snapshots[1].crexi_asset_id = JStr("")
    /\ suite_snapshots[1].crexi_suite_id = JStr("")
    /\ suite_snapshots[2].crexi_asset_id = JStr("12")
    /\ suite_snapshots[2].crexi_suite_id = JStr("S3")

-----------------------------------------------------------------------------
(* More claims about the two builders (SpecBuild)                          *)

\* the value under key a if the key is present, else under key b, else null
C11_Either(obj, a, b) ==
    IF a \in DOMAIN obj THEN obj[a]
    ELSE IF b \in DOMAIN obj THEN obj[b]
    ELSE JNull

\* C11: in every emitted record suite_size is the suite's size if that key is
\* present, else its squareFeet, else null, and lease_rate its rate, else its
\* leaseRate, else null: a suite with neither key of a pair gets null, not 0 and
\* not a string.
C11_MissingNumbersAreNull ==
    pc = "save_market" =>
        \A k \in 1..Len(suite_snapshots) :
            LET r == suite_snapshots[k]
                suite == r.raw_data
            IN  /\ r.suite_size = C11_Either(suite, "size", "squareFeet")
                /\ r.lease_rate = C11_Either(suite, "rate", "leaseRate")
                /\ ({"size", "squareFeet"} \cap DOMAIN suite = {})
                      => r.suite_size.t = "null"
                /\ ({"rate", "leaseRate"} \cap DOMAIN suite = {})
                      => r.lease_rate.t = "null"

C11_Witness ==
    /\ pc = "save_market"
    /\ result.data = [results |-> <<L8, L2>>]
    /\ suite_snapshots[1].raw_data = S4
    /\ suite_snapshots[1].suite_size = JNull
    /\ suite_snapshots[1].lease_rate = JNull
    /\ suite_snapshots[2].suite_size = JNum(40)
    /\ suite_snapshots[3].suite_size = JNum(500)
    /\ suite_snapshots[3].lease_rate = JNull

RECURSIVE C15_OwnerIndex(_, _)
C15_OwnerIndex(ls, n) ==
    IF n > Len(ls) THEN <<>>
    ELSE [k \in 1..Len(C9_SuitesIfPresent(ls[n])) |-> n] \o C15_OwnerIndex(ls, n + 1)

\* the listing's value under lkey when it has that key, else the suite's under skey
C15_ListingFirst(l, suite, lkey, skey) ==
    IF lkey \in DOMAIN l THEN l[lkey]
    ELSE IF skey \in DOMAIN suite THEN suite[skey]
    ELSE JNull

\* C15: records come out in listing order and, within a listing, in suite order;
\* each record's crexi_asset_id is that of the listing holding the suite, and its
\* address, city, state and zip are the listing's values where the listing has the
\* key and the suite's (zip under zipCode) only where it has not; two suites of one
\* listing carry the same crexi_asset_id.
C15_OrderAndListingFields ==
    pc = "save_market" =>
        LET ls == C8_FirstPresent(result.data)
            own == C15_OwnerIndex(ls, 1)
        IN  /\ [k \in 1..Len(suite_snapshots) |-> suite_snapshots[k].raw_data]
                  = C9_FlattenIfPresent(ls)
            /\ Len(own) = Len(suite_snapshots)
            /\ \A k \in 1..Len(suite_snapshots) :
                  LET r == suite_snapshots[k]
                      l == ls[own[k]]
                  IN  /\ r.crexi_asset_id = JStr(C10_Id(l, "id", "assetId"))
                      /\ r.address = C15_ListingFirst(l, r.raw_data, "address", "address")
                      /\ r.city = C15_ListingFirst(l, r.raw_data, "city", "city")
                      /\ r.state = C15_ListingFirst(l, r.raw_data, "state", "state")
                      /\ r.zip = C15_ListingFirst(l, r.raw_data, "zip", "zipCode")
            /\ \A j, k \in 1..Len(suite_snapshots) :
                  own[j] = own[k]
                      => suite_snapshots[j].crexi_asset_id = suite_snapshots[k].crexi_asset_id

C15_Witness ==
    /\ pc = "save_market"
    /\ result.data = [results |-> <<L4, L7>>]
    /\ Len(suite_snapshots) = 3
    /\ suite_snapshots[1].address = JStr("1 Main St")
    /\ suite_snapshots[1].zip = JStr("90058")
    /\ suite_snapshots[2].raw_data = S5
    /\ suite_snapshots[2].state = JStr("NV")
    /\ suite_snapshots[2].crexi_asset_id = JStr("A7")
    /\ suite_snapshots[3].crexi_asset_id = JStr("A7")

-----------------------------------------------------------------------------
(* Claims about the run as a whole (SpecFair)                              *)

\* every run reaches the end of the process
C12_Terminates == <>(pc = "exited")

\* C12: the probe loop is left either at the first request answered 200 or after
\* the last combination without any 200, the persistence phase after the last
\* batch or at the first failing insert, and the exit status is 0 only if the
\* market insert and every suite batch insert succeeded.
C12_EndsAtFirst200OrExhaustion ==
    /\ (pc \notin {"validate", "probe"} /\ requests # <<>>)
          => \/ first200 = Len(requests)
             \/ first200 = 0 /\ Len(requests) = 36 /\ result = FailureResult
    /\ (pc = "exited" /\ inserts # <<>>)
          => \/ ~inserts[Len(inserts)].ok
             \/ i >= Len(suite_snapshots)
    /\ exit_code = <<0>>
          => /\ inserts # <<>>
             /\ \A j \in 1..Len(inserts) : inserts[j].ok
             /\ backend.crexi_market_snapshots = <<market_snapshot>>
             /\ backend.crexi_suite_snapshots = suite_snapshots

-----------------------------------------------------------------------------
(* More claims about save_to_supabase (SpecSave)                           *)

\* the suite batches the backend accepted, concatenated in call order
RECURSIVE C14_Accepted(_)
C14_Accepted(calls) ==
    IF calls = <<>> THEN <<>>
    ELSE (IF Head(calls).table = "crexi_suite_snapshots" /\ Head(calls).ok
          THEN Head(calls).rows ELSE <<>>)
         \o C14_Accepted(Tail(calls))

C14_Failed == \E j \in 1..Len(inserts) : ~inserts[j].ok

\* C14: when save_to_supabase returns, the suite batches it inserted, concatenated
\* in call order, are the input list: every record once, in order.  At every point
\* of a run, and so of a failing one, the records inserted so far are a prefix of
\* the input list, and while a run has failed or has records left the prefix's
\* length is a multiple of 100.
C14_BatchesPartitionInput ==
    LET done == C14_Accepted(inserts)
    IN  /\ pc = "finish" => done = suite_snapshots /\ ~C14_Failed
        /\ Len(done) <= Len(suite_snapshots)
        /\ done = SubSeq(suite_snapshots, 1, Len(done))
        /\ backend.crexi_suite_snapshots = done
        /\ (C14_Failed \/ Len(done) < Len(suite_snapshots)) => Len(done) % 100 = 0

C14_Witness ==
    /\ pc = "exited"
    /\ Len(suite_snapshots) = 250
    /\ Len(inserts) = 4
    /\ ~inserts[4].ok
    /\ C14_Accepted(inserts) = SubSeq(suite_snapshots, 1, 200)

====
